---- MODULE Spec2Model ----
(***************************************************************************)
(* A model of the starter kit's request-time authentication gate           *)
(* (middleware), of the auth server actions and their in-memory attempt    *)
(* limiter, of the Supabase-backed and Upstash-backed rate limiters, of    *)
(* the OAuth callback route and of getClientIp.                            *)
(*                                                                         *)
(* Strings are TLC strings: Len, SubSeq and \o work on them character by   *)
(* character, so prefix tests, case folding and query-string encoding are  *)
(* computed as the JavaScript runtime computes them.                       *)
(***************************************************************************)
EXTENDS Integers, Sequences, FiniteSets, Bags, TLC

VARIABLES
    env,               \* process.env: NODE_ENV, Supabase URL / anon key, Upstash
    now,               \* Date.now() / NOW(), in milliseconds
    mwPc,              \* middleware: "idle" | "getUser" | "done"
    request,           \* middleware: the NextRequest being handled
    supabaseResponse,  \* middleware: the `let supabaseResponse`
    getUserCalls,      \* middleware: calls of supabase.auth.getUser() this request
    setAllCalls,       \* middleware: calls of cookies.setAll() this request
    handedBack,        \* middleware: every cookie handed to setAll, as handed
    verification,      \* middleware: how auth.getUser() ended
    mwResult,          \* middleware: what the middleware returned
    loginAttempts,          \* actions: Map identifier -> { count, timestamp }
    signupAttempts,         \* actions: Map identifier -> { count, timestamp }
    passwordResetAttempts,  \* actions: Map identifier -> { count, timestamp }
    call,              \* actions: per handler, the server action call in progress
    episode,           \* actions: per map and identifier, the attempts made since
                       \* the identifier last had no record
    rows,              \* persistent limiter: the rate_limit_entries table, a
                       \* bag of rows (identifier, action_key, created_at)
    lastOp,            \* persistent / Upstash limiter: the last call and its result
    sa,                \* persistent limiter: the someServerAction calls in progress
    cb,                \* OAuth callback: the GET request being handled
    session,           \* OAuth callback: the user of the browser's session, or none
    user_profiles,     \* OAuth callback: ids of the rows of user_profiles
    ipCall             \* getClientIp: the last call, its headers and its result

gateVars == <<mwPc, request, supabaseResponse, getUserCalls, setAllCalls,
              handedBack, verification, mwResult>>
memVars == <<loginAttempts, signupAttempts, passwordResetAttempts, call, episode>>
dbVars == <<rows, lastOp, sa>>
routeVars == <<cb, session, user_profiles, ipCall>>
vars == <<env, now, gateVars, memVars, dbVars, routeVars>>

(***************************************************************************)
(* Bounds of the model.                                                    *)
(***************************************************************************)
MaxSetAllCalls == 2
MaxTicks == 2        \* the clock advances at most this many times
MaxTotal == 6        \* attempts counted in the three maps together
NumHandlers == 2     \* request handlers that may run at once
MaxRows == 2         \* rows of the rate_limit_entries table
MaxFailOpen == 1
MaxDays == 1         \* the clock advances by a day at most this many times

(***************************************************************************)
(* String helpers: what String.prototype.startsWith and the               *)
(* application/x-www-form-urlencoded serializer and parser of              *)
(* URLSearchParams do.                                                     *)
(***************************************************************************)
startsWith(s, p) == Len(s) >= Len(p) /\ SubSeq(s, 1, Len(p)) = p

charAt(s, i) == SubSeq(s, i, i)

Unreserved ==
    {"a","b","c","d","e","f","g","h","i","j","k","l","m","n","o","p","q","r",
     "s","t","u","v","w","x","y","z","A","B","C","D","E","F","G","H","I","J",
     "K","L","M","N","O","P","Q","R","S","T","U","V","W","X","Y","Z","0","1",
     "2","3","4","5","6","7","8","9","*","-",".","_"}

\* The percent-encoded bytes of the characters the model's paths use.
PercentTable ==
    {<<"/", "%2F">>, <<"%", "%25">>, <<"+", "%2B">>, <<"&", "%26">>,
     <<"=", "%3D">>, <<"?", "%3F">>, <<":", "%3A">>, <<"@", "%40">>}

encodeChar(c) ==
    IF c \in Unreserved THEN c
    ELSE IF c = " " THEN "+"
    ELSE (CHOOSE e \in PercentTable : e[1] = c)[2]

RECURSIVE formEncodeFrom(_, _)
formEncodeFrom(s, i) ==
    IF i > Len(s) THEN ""
    ELSE encodeChar(charAt(s, i)) \o formEncodeFrom(s, i + 1)

\* URLSearchParams serialisation of one value.
formEncode(s) == formEncodeFrom(s, 1)

RECURSIVE formDecodeFrom(_, _)
formDecodeFrom(s, i) ==
    IF i > Len(s) THEN ""
    ELSE IF charAt(s, i) = "+" THEN " " \o formDecodeFrom(s, i + 1)
    ELSE IF charAt(s, i) = "%" /\ i + 2 <= Len(s)
            /\ \E e \in PercentTable : e[2] = SubSeq(s, i, i + 2)
         THEN (CHOOSE e \in PercentTable : e[2] = SubSeq(s, i, i + 2))[1]
              \o formDecodeFrom(s, i + 3)
    ELSE charAt(s, i) \o formDecodeFrom(s, i + 1)

\* URLSearchParams parsing of one value.
formDecode(s) == formDecodeFrom(s, 1)

(***************************************************************************)
(* The environment.                                                        *)
(***************************************************************************)
SupabaseUrl == "https://proj.supabase.co"
AnonKey == "anon-key"

\* process.env values; "" stands for an unset (or empty) variable.
UpstashUrl == "https://eu1.upstash.io"
UpstashToken == "upstash-token"

envOf(nodeEnv, url, key, redisUrl, redisToken) ==
    [NODE_ENV |-> nodeEnv, NEXT_PUBLIC_SUPABASE_URL |-> url,
     NEXT_PUBLIC_SUPABASE_ANON_KEY |-> key,
     UPSTASH_REDIS_REST_URL |-> redisUrl, UPSTASH_REDIS_REST_TOKEN |-> redisToken]

\* The feature flags of src/lib/feature-flags, as process.env holds them.
withFlags(e, auth, login, register, forgot, reset, google) ==
    [NODE_ENV |-> e.NODE_ENV,
     NEXT_PUBLIC_SUPABASE_URL |-> e.NEXT_PUBLIC_SUPABASE_URL,
     NEXT_PUBLIC_SUPABASE_ANON_KEY |-> e.NEXT_PUBLIC_SUPABASE_ANON_KEY,
     UPSTASH_REDIS_REST_URL |-> e.UPSTASH_REDIS_REST_URL,
     UPSTASH_REDIS_REST_TOKEN |-> e.UPSTASH_REDIS_REST_TOKEN,
     NEXT_PUBLIC_AUTH_ENABLED |-> auth,
     NEXT_PUBLIC_LOGIN_EMAIL_AUTH_ENABLED |-> login,
     NEXT_PUBLIC_REGISTER_EMAIL_AUTH_ENABLED |-> register,
     NEXT_PUBLIC_FORGOT_PASSWORD_ENABLED |-> forgot,
     NEXT_PUBLIC_RESET_PASSWORD_ENABLED |-> reset,
     AUTH_ALLOW_GOOGLE_SIGNUP |-> google]

\* A covering selection of deployments: every flag is on in some of them and
\* off ("0", unset, or a value other than "1") in another that has the
\* identity provider configured.
EnvConfigs ==
    {withFlags(envOf("production", SupabaseUrl, AnonKey, UpstashUrl, UpstashToken),
               "1", "1", "1", "1", "1", "1"),
     withFlags(envOf("development", SupabaseUrl, AnonKey, UpstashUrl, UpstashToken),
               "0", "1", "1", "1", "1", "1"),
     withFlags(envOf("production", SupabaseUrl, AnonKey, UpstashUrl, ""),
               "1", "0", "", "true", "0", ""),
     withFlags(envOf("production", "", AnonKey, UpstashUrl, UpstashToken),
               "1", "1", "1", "1", "1", "1"),
     withFlags(envOf("development", SupabaseUrl, "", "", UpstashToken),
               "1", "1", "1", "1", "1", "0"),
     withFlags(envOf("production", "", "", "", ""),
               "", "", "", "", "", "")}

\* src/lib/feature-flags: a flag is on exactly when its variable is '1'.
isAuthEnabled(e) == e.NEXT_PUBLIC_AUTH_ENABLED = "1"
isLoginEmailAuthEnabled(e) == e.NEXT_PUBLIC_LOGIN_EMAIL_AUTH_ENABLED = "1"
isRegisterEmailAuthEnabled(e) == e.NEXT_PUBLIC_REGISTER_EMAIL_AUTH_ENABLED = "1"
isForgotPasswordEnabled(e) == e.NEXT_PUBLIC_FORGOT_PASSWORD_ENABLED = "1"
isResetPasswordEnabled(e) == e.NEXT_PUBLIC_RESET_PASSWORD_ENABLED = "1"
isGoogleSignupAllowed(e) == e.AUTH_ALLOW_GOOGLE_SIGNUP = "1"

falsy(s) == s = ""

(***************************************************************************)
(* Session gate: the middleware.                                           *)
(***************************************************************************)
Origins == {"https://app.example"}

Pathnames ==
    {"/", "/login", "/login/", "/login/sso", "/loginx", "/register",
     "/forgot-password", "/reset-password", "/reset-password/tok",
     "/dashboard", "/dashboard/a+b%20c", "/settings&tab=1",
     "/api", "/api/callback", "/auth/callback", "/authx"}

SessionCookie == "sb-auth-token"
CookieNames == {SessionCookie, "sb-auth-token.1"}

EmptyJar == [n \in {} |-> ""]

\* request.cookies of an incoming request: none, or a session cookie.
RequestCookieJars == {EmptyJar, [n \in {SessionCookie} |-> "stale"]}

\* Cookie options as the Supabase client hands them to setAll.
CookieOptions ==
    [path : {"/"}, httpOnly : BOOLEAN, secure : BOOLEAN,
     sameSite : {"lax", "strict"}, maxAge : {0, 34560000}]

CookiesToSet ==
    {[name |-> n, value |-> v, options |-> o] :
        n \in CookieNames, v \in {"fresh"},
        o \in {[path |-> "/", httpOnly |-> FALSE, secure |-> FALSE,
                sameSite |-> "lax", maxAge |-> 34560000],
               [path |-> "/", httpOnly |-> TRUE, secure |-> TRUE,
                sameSite |-> "strict", maxAge |-> 0]}}

\* cookiesToSet arrays: one or two cookies.
CookieBatches ==
    {<<c>> : c \in CookiesToSet} \cup
    {<<c, d>> : c \in CookiesToSet, d \in CookiesToSet}

\* cookies.set(name, value): the jar with name bound to value.
jarSet(jar, name, value) ==
    [n \in DOMAIN jar \cup {name} |-> IF n = name THEN value ELSE jar[n]]

\* NextResponse.next({ request }): pass the request on, no Set-Cookie yet.
NextResponseNext(req) ==
    [kind |-> "next", location |-> "", cookies |-> EmptyJar]

\* NextResponse.redirect(url): a fresh response, with no cookies of its own.
NextResponseRedirect(url) ==
    [kind |-> "redirect", location |-> url, cookies |-> EmptyJar]

\* The rejected promise of a middleware whose awaited call raised.
Raised == [kind |-> "throw", location |-> "", cookies |-> EmptyJar]

NoResult == [kind |-> "none", location |-> "", cookies |-> EmptyJar]

NoRequest == [origin |-> "", pathname |-> "", cookies |-> EmptyJar]

\* `{ ...options, secure: NODE_ENV === 'production', sameSite: 'lax' }`
setAllOptions(options, nodeEnv) ==
    [options EXCEPT !.secure = (nodeEnv = "production"), !.sameSite = "lax"]

RECURSIVE setRequestCookies(_, _, _)
setRequestCookies(jar, cookiesToSet, i) ==
    IF i > Len(cookiesToSet) THEN jar
    ELSE setRequestCookies(
            jarSet(jar, cookiesToSet[i].name, cookiesToSet[i].value),
            cookiesToSet, i + 1)

RECURSIVE setResponseCookies(_, _, _, _)
setResponseCookies(jar, cookiesToSet, i, nodeEnv) ==
    IF i > Len(cookiesToSet) THEN jar
    ELSE setResponseCookies(
            jarSet(jar, cookiesToSet[i].name,
                   [value |-> cookiesToSet[i].value,
                    options |-> setAllOptions(cookiesToSet[i].options, nodeEnv)]),
            cookiesToSet, i + 1, nodeEnv)

\* The history of what setAll was handed: the latest cookie of each name.
RECURSIVE noteHandedBack(_, _, _)
noteHandedBack(jar, cookiesToSet, i) ==
    IF i > Len(cookiesToSet) THEN jar
    ELSE noteHandedBack(
            jarSet(jar, cookiesToSet[i].name,
                   [value |-> cookiesToSet[i].value,
                    options |-> cookiesToSet[i].options]),
            cookiesToSet, i + 1)

publicRoutes == <<"/", "/login", "/register", "/forgot-password", "/reset-password">>

\* A variant that matches by prefix alone, without the path separator.
isPublicRoute_noSeparator(pathname) ==
    \E k \in DOMAIN publicRoutes :
        LET route == publicRoutes[k] IN
        IF route = "/" THEN pathname = "/"
        ELSE pathname = route \/ startsWith(pathname, route)

\* A variant that forgets the exact match and keeps only the prefix rule.
isPublicRoute_prefixOnly(pathname) ==
    \E k \in DOMAIN publicRoutes :
        LET route == publicRoutes[k] IN
        IF route = "/" THEN pathname = "/"
        ELSE startsWith(pathname, route \o "/")

isPublicRoute(pathname) ==
    \E k \in DOMAIN publicRoutes :
        LET route == publicRoutes[k] IN
        IF route = "/" THEN pathname = "/"
        ELSE pathname = route \/ startsWith(pathname, route \o "/")

isBypassed(pathname) ==
    startsWith(pathname, "/api/") \/ startsWith(pathname, "/auth/")

\* A variant that also counts /reset-password as an auth page.
isAuthPage_withReset(pathname) ==
    pathname = "/login" \/ pathname = "/register" \/ pathname = "/forgot-password"
        \/ pathname = "/reset-password"

isAuthPage(pathname) ==
    pathname = "/login" \/ pathname = "/register" \/ pathname = "/forgot-password"

\* A variant that appends the path to the query string as it is.
loginUrl_unencoded(req) ==
    req.origin \o "/login" \o "?" \o "redirectTo=" \o req.pathname

\* new URL('/login', request.url) with searchParams.set('redirectTo', pathname)
loginUrl(req) ==
    req.origin \o "/login" \o "?" \o "redirectTo=" \o formEncode(req.pathname)

\* A variant that sends the signed-in visitor of an auth page to /login.
dashboardUrl_toLogin(req) == req.origin \o "/login"

\* new URL('/dashboard', request.url)
dashboardUrl(req) == req.origin \o "/dashboard"

\* A variant that tests the infrastructure prefixes after the redirects.
decide_bypassLast(req, hasUser, response) ==
    IF hasUser /\ isAuthPage(req.pathname)
    THEN NextResponseRedirect(dashboardUrl(req))
    ELSE IF ~hasUser /\ ~isPublicRoute(req.pathname)
         THEN NextResponseRedirect(loginUrl(req))
    ELSE response

\* The routing decision made once auth.getUser() has resolved.
decide(req, hasUser, response) ==
    IF isBypassed(req.pathname) THEN response
    ELSE IF hasUser /\ isAuthPage(req.pathname)
         THEN NextResponseRedirect(dashboardUrl(req))
    ELSE IF ~hasUser /\ ~isPublicRoute(req.pathname)
         THEN NextResponseRedirect(loginUrl(req))
    ELSE response

\* A variant that fails open only when both settings are missing.
configMissing_both(e) ==
    falsy(e.NEXT_PUBLIC_SUPABASE_URL) /\ falsy(e.NEXT_PUBLIC_SUPABASE_ANON_KEY)

configMissing(e) ==
    falsy(e.NEXT_PUBLIC_SUPABASE_URL) \/ falsy(e.NEXT_PUBLIC_SUPABASE_ANON_KEY)

\* middleware(request), up to the await of auth.getUser().
MwReceive(origin, pathname, cookies) ==
    /\ mwPc = "idle"
    /\ request' = [origin |-> origin, pathname |-> pathname, cookies |-> cookies]
    /\ supabaseResponse' = NextResponseNext(request')
    /\ handedBack' = EmptyJar
    /\ setAllCalls' = 0
    /\ verification' = "pending"
    /\ IF configMissing(env)
       THEN /\ mwResult' = supabaseResponse'
            /\ getUserCalls' = 0
            /\ mwPc' = "done"
       ELSE /\ mwResult' = NoResult
            /\ getUserCalls' = 1
            /\ mwPc' = "getUser"
    /\ UNCHANGED <<routeVars, env, now, memVars, dbVars>>

\* cookies.setAll(cookiesToSet), called by the Supabase client while
\* auth.getUser() refreshes the session.
MwSetAll(cookiesToSet) ==
    /\ mwPc = "getUser"
    /\ setAllCalls < MaxSetAllCalls
    /\ SessionCookie \in DOMAIN request.cookies
    /\ request' = [request EXCEPT
                     !.cookies = setRequestCookies(request.cookies, cookiesToSet, 1)]
    /\ supabaseResponse' =
         [NextResponseNext(request') EXCEPT
            !.cookies = setResponseCookies(EmptyJar, cookiesToSet, 1, env.NODE_ENV)]
    /\ handedBack' = noteHandedBack(handedBack, cookiesToSet, 1)
    /\ setAllCalls' = setAllCalls + 1
    /\ UNCHANGED <<routeVars, env, now, mwPc, getUserCalls, verification, mwResult,
                   memVars, dbVars>>

\* How auth.getUser() can end: a user, no user, an error result
\* ({ data: { user: null }, error }), or a raised error.
VerificationOutcomes == {"user", "nouser", "error", "throw"}

\* auth.getUser() resolves (or rejects) and the middleware finishes.
MwGetUserReturns(outcome) ==
    /\ mwPc = "getUser"
    /\ outcome = "user" => SessionCookie \in DOMAIN request.cookies
    /\ verification' = outcome
    /\ mwResult' = IF outcome = "throw" THEN Raised
                   ELSE decide(request, outcome = "user", supabaseResponse)
    /\ mwPc' = "done"
    /\ UNCHANGED <<routeVars, env, now, request, supabaseResponse, getUserCalls,
                   setAllCalls, handedBack, memVars, dbVars>>

\* The response has been sent; the middleware waits for the next request.
MwDone ==
    /\ mwPc = "done"
    /\ mwPc' = "idle"
    /\ request' = NoRequest
    /\ supabaseResponse' = NoResult
    /\ mwResult' = NoResult
    /\ getUserCalls' = 0
    /\ setAllCalls' = 0
    /\ handedBack' = EmptyJar
    /\ verification' = "pending"
    /\ UNCHANGED <<routeVars, env, now, memVars, dbVars>>

GateInit ==
    /\ mwPc = "idle"
    /\ request = NoRequest
    /\ supabaseResponse = NoResult
    /\ mwResult = NoResult
    /\ getUserCalls = 0
    /\ setAllCalls = 0
    /\ handedBack = EmptyJar
    /\ verification = "pending"

(***************************************************************************)
(* The clock.                                                              *)
(***************************************************************************)
LOGIN_MAX_ATTEMPTS == 5
LOGIN_WINDOW_MS == 60 * 1000
SIGNUP_MAX_ATTEMPTS == 3
SIGNUP_WINDOW_MS == 60 * 1000
PASSWORD_RESET_MAX_ATTEMPTS == 3
PASSWORD_RESET_WINDOW_MS == 60 * 1000

\* Time passes in steps of one limiter window, so that an attempt can fall
\* inside the window of an earlier one, exactly on its end, and past it.
TickMs == LOGIN_WINDOW_MS

Tick ==
    /\ now < MaxTicks * TickMs
    /\ now' = now + TickMs
    /\ UNCHANGED <<routeVars, env, gateVars, memVars, dbVars>>

(***************************************************************************)
(* Authentication server actions and their in-memory attempt limiter.      *)
(***************************************************************************)
UpperToLower ==
    {<<"A","a">>, <<"B","b">>, <<"U","u">>, <<"X","x">>, <<"I","i">>, <<"O","o">>}

toLowerChar(c) ==
    IF \E m \in UpperToLower : m[1] = c
    THEN (CHOOSE m \in UpperToLower : m[1] = c)[2]
    ELSE c

RECURSIVE toLowerFrom(_, _)
toLowerFrom(s, i) ==
    IF i > Len(s) THEN "" ELSE toLowerChar(charAt(s, i)) \o toLowerFrom(s, i + 1)

Emails == {"User@x.io", "user@x.io"}

\* The lower-case forms of the emails the actions are called with, computed
\* once.
LoweredEmails == [e \in Emails |-> toLowerFrom(e, 1)]

\* String.prototype.toLowerCase
toLowerCase(s) == IF s \in Emails THEN LoweredEmails[s] ELSE toLowerFrom(s, 1)

\* String.prototype.includes
includes(s, sub) ==
    \E i \in 1..(Len(s) + 1) :
        i + Len(sub) - 1 <= Len(s) /\ SubSeq(s, i, i + Len(sub) - 1) = sub

Identifiers == {toLowerCase(e) : e \in Emails}

EmptyMap == [i \in {} |-> [count |-> 0, timestamp |-> 0]]

\* Map.prototype.set
mapSet(m, key, value) ==
    [k \in DOMAIN m \cup {key} |-> IF k = key THEN value ELSE m[k]]

\* Map.prototype.delete
mapDelete(m, key) == [k \in DOMAIN m \ {key} |-> m[k]]

\* A variant that decides on the count an attempt would make but does not
\* store it: attempts inside the window are checked, not recorded.
isRateLimited_notCounted(attemptMap, identifier, maxAttempts, windowMs, t) ==
    IF identifier \notin DOMAIN attemptMap
    THEN [map |-> mapSet(attemptMap, identifier, [count |-> 1, timestamp |-> t]),
          limited |-> FALSE]
    ELSE LET attempt == attemptMap[identifier] IN
         IF t - attempt.timestamp > windowMs
         THEN [map |-> mapSet(attemptMap, identifier, [count |-> 1, timestamp |-> t]),
               limited |-> FALSE]
         ELSE [map |-> attemptMap,
               limited |-> attempt.count + 1 > maxAttempts]

\* A variant whose window slides: every attempt moves the timestamp.
isRateLimited_sliding(attemptMap, identifier, maxAttempts, windowMs, t) ==
    IF identifier \notin DOMAIN attemptMap
    THEN [map |-> mapSet(attemptMap, identifier, [count |-> 1, timestamp |-> t]),
          limited |-> FALSE]
    ELSE LET attempt == attemptMap[identifier] IN
         IF t - attempt.timestamp > windowMs
         THEN [map |-> mapSet(attemptMap, identifier, [count |-> 1, timestamp |-> t]),
               limited |-> FALSE]
         ELSE [map |-> mapSet(attemptMap, identifier,
                              [count |-> attempt.count + 1, timestamp |-> t]),
               limited |-> attempt.count + 1 > maxAttempts]

\* A variant that denies the attempt that reaches the threshold.
isRateLimited_atThreshold(attemptMap, identifier, maxAttempts, windowMs, t) ==
    IF identifier \notin DOMAIN attemptMap
    THEN [map |-> mapSet(attemptMap, identifier, [count |-> 1, timestamp |-> t]),
          limited |-> FALSE]
    ELSE LET attempt == attemptMap[identifier] IN
         IF t - attempt.timestamp > windowMs
         THEN [map |-> mapSet(attemptMap, identifier, [count |-> 1, timestamp |-> t]),
               limited |-> FALSE]
         ELSE [map |-> mapSet(attemptMap, identifier,
                              [attempt EXCEPT !.count = attempt.count + 1]),
               limited |-> attempt.count + 1 >= maxAttempts]

\* isRateLimited(attemptMap, identifier, maxAttempts, windowMs) at time t:
\* the map as the call leaves it, and the value the call returns.
isRateLimited(attemptMap, identifier, maxAttempts, windowMs, t) ==
    IF identifier \notin DOMAIN attemptMap
    THEN [map |-> mapSet(attemptMap, identifier, [count |-> 1, timestamp |-> t]),
          limited |-> FALSE]
    ELSE LET attempt == attemptMap[identifier] IN
         IF t - attempt.timestamp > windowMs
         THEN [map |-> mapSet(attemptMap, identifier, [count |-> 1, timestamp |-> t]),
               limited |-> FALSE]
         ELSE [map |-> mapSet(attemptMap, identifier,
                              [attempt EXCEPT !.count = attempt.count + 1]),
               limited |-> attempt.count + 1 > maxAttempts]

Handlers == 1..NumHandlers

LimitedActions == {"login", "signup", "requestPasswordReset"}
UnlimitedActions == {"signInWithGoogle", "logout", "resetPassword"}
Actions == LimitedActions \cup UnlimitedActions

maxAttemptsOf(action) ==
    CASE action = "login" -> LOGIN_MAX_ATTEMPTS
      [] action = "signup" -> SIGNUP_MAX_ATTEMPTS
      [] action = "requestPasswordReset" -> PASSWORD_RESET_MAX_ATTEMPTS

windowMsOf(action) ==
    CASE action = "login" -> LOGIN_WINDOW_MS
      [] action = "signup" -> SIGNUP_WINDOW_MS
      [] action = "requestPasswordReset" -> PASSWORD_RESET_WINDOW_MS

\* The attempt map an action uses.
attemptMapOf(action) ==
    CASE action = "login" -> loginAttempts
      [] action = "signup" -> signupAttempts
      [] action = "requestPasswordReset" -> passwordResetAttempts

\* The structured results of the server actions.
Success == [type |-> "success", text |-> ""]
Failure(message) == [type |-> "error", text |-> message]
OAuthUrl(url) == [type |-> "url", text |-> url]
Pending == [type |-> "pending", text |-> ""]

tooManyOf(action) ==
    CASE action = "login" ->
            Failure("Too many login attempts. Please try again later.")
      [] action = "signup" ->
            Failure("Too many registration attempts. Please try again later.")
      [] action = "requestPasswordReset" ->
            Failure("Too many password reset requests. Please try again later.")

Unexpected == Failure("An unexpected error occurred. Please try again.")

\* How the identity provider's call can end: { error: null }, an error with
\* a message, or a raised error.
NoError == ""
ProviderErrors ==
    {"Invalid login credentials", "User not found", "Auth session missing!",
     "Email rate limit exceeded"}
\* `session` tells whether the answer carried a session (data.session).
ProviderOutcomes ==
    {[threw |-> FALSE, error |-> e, session |-> FALSE] : e \in ProviderErrors}
    \cup {[threw |-> FALSE, error |-> NoError, session |-> s] : s \in BOOLEAN}
    \cup {[threw |-> TRUE, error |-> NoError, session |-> FALSE]}

\* The answers a provider call of the action can have: signInWithPassword
\* without an error always carries a session, signUp carries one unless the
\* email has to be confirmed first, and the other calls carry none.
providerOutcomesOf(action) ==
    {o \in ProviderOutcomes :
        /\ (o.session => action \in {"login", "signup"})
        /\ (action = "login" /\ ~o.threw /\ o.error = NoError => o.session)}

UserIds == {"u1", "u2"}
NoUser == "none"

\* The provider's user for an email address.
userOf(email) == IF toLowerCase(email) = "user@x.io" THEN "u1" ELSE "u2"

\* The browser's session once the provider's call has ended: signInWithPassword
\* and signUp start the session their answer carries, signOut without an
\* error ends it, and everything else leaves it.
sessionAfter(action, email, e, outcome, current) ==
    IF configMissing(e) \/ outcome.threw \/ outcome.error # NoError THEN current
    ELSE IF action \in {"login", "signup"}
         THEN (IF outcome.session THEN userOf(email) ELSE current)
    ELSE IF action = "logout" THEN NoUser
    ELSE current

GoogleUrl == "https://accounts.google.com/o/oauth2/v2/auth"

\* A variant of requestPasswordReset that reports every provider error.
resultOf_reportsUnknown(action, error) ==
    CASE action = "login" ->
            IF error # NoError THEN Failure("Invalid login credentials") ELSE Success
      [] action = "signup" ->
            IF error # NoError
            THEN Failure("Registration failed. Please try again later.")
            ELSE Success
      [] action = "signInWithGoogle" ->
            IF error # NoError
            THEN Failure("Authentication failed. Please try again.")
            ELSE OAuthUrl(GoogleUrl)
      [] action = "logout" ->
            IF error # NoError THEN Failure("Logout failed. Please try again.")
            ELSE Success
      [] action = "requestPasswordReset" ->
            IF error # NoError
            THEN Failure("Failed to send password reset email. Please try again.")
            ELSE Success
      [] action = "resetPassword" ->
            IF error # NoError
            THEN IF includes(error, "session")
                 THEN Failure("Invalid or expired reset link. Please request a new one.")
                 ELSE Failure("Failed to reset password. Please try again.")
            ELSE Success

\* A variant of login that hands the provider's message to the caller.
resultOf_echoesProvider(action, error) ==
    CASE action = "login" ->
            IF error # NoError THEN Failure(error) ELSE Success
      [] action = "signup" ->
            IF error # NoError
            THEN Failure("Registration failed. Please try again later.")
            ELSE Success
      [] action = "signInWithGoogle" ->
            IF error # NoError
            THEN Failure("Authentication failed. Please try again.")
            ELSE OAuthUrl(GoogleUrl)
      [] action = "logout" ->
            IF error # NoError THEN Failure("Logout failed. Please try again.")
            ELSE Success
      [] action = "requestPasswordReset" ->
            IF error # NoError /\ error # "User not found"
            THEN Failure("Failed to send password reset email. Please try again.")
            ELSE Success
      [] action = "resetPassword" ->
            IF error # NoError
            THEN IF includes(error, "session")
                 THEN Failure("Invalid or expired reset link. Please request a new one.")
                 ELSE Failure("Failed to reset password. Please try again.")
            ELSE Success

\* What an action returns once the provider's call has ended without raising.
resultOf(action, error) ==
    CASE action = "login" ->
            IF error # NoError THEN Failure("Invalid login credentials") ELSE Success
      [] action = "signup" ->
            IF error # NoError
            THEN Failure("Registration failed. Please try again later.")
            ELSE Success
      [] action = "signInWithGoogle" ->
            IF error # NoError
            THEN Failure("Authentication failed. Please try again.")
            ELSE OAuthUrl(GoogleUrl)
      [] action = "logout" ->
            IF error # NoError THEN Failure("Logout failed. Please try again.")
            ELSE Success
      [] action = "requestPasswordReset" ->
            IF error # NoError /\ error # "User not found"
            THEN Failure("Failed to send password reset email. Please try again.")
            ELSE Success
      [] action = "resetPassword" ->
            IF error # NoError
            THEN IF includes(error, "session")
                 THEN Failure("Invalid or expired reset link. Please request a new one.")
                 ELSE Failure("Failed to reset password. Please try again.")
            ELSE Success

\* A handler's call: where it is, what it was given, what it returned, and
\* for the record how the provider's call ended, whether the limiter found
\* an expired record and started it again, and the count it found.
Idle ==
    [pc |-> "idle", action |-> "", email |-> "", result |-> Pending,
     provider |-> "not called", error |-> NoError, restarted |-> FALSE,
     found |-> 0]

NoEpisode == [n |-> 0, first |-> 0, admitted |-> 0, lastAdmitted |-> FALSE,
              inWindow |-> TRUE]

\* An episode one of whose attempts fell outside the window of the first.
LongEpisode == [n |-> 0, first |-> 0, admitted |-> 0, lastAdmitted |-> FALSE,
                inWindow |-> FALSE]

totalCount(m) ==
    LET RECURSIVE sum(_)
        sum(S) == IF S = {} THEN 0
                  ELSE LET k == CHOOSE x \in S : TRUE IN m[k].count + sum(S \ {k})
    IN sum(DOMAIN m)

\* The attempts since the identifier last had no record: how many, when the
\* first was made, how many were admitted, and whether all of them fell
\* within one window of the first.
noteAttempt(ep, t, windowMs, limited) ==
    LET first == IF ep.n = 0 THEN t ELSE ep.first IN
    IF ep.inWindow /\ t - first <= windowMs
    THEN [n |-> ep.n + 1, first |-> first,
          admitted |-> ep.admitted + (IF limited THEN 0 ELSE 1),
          lastAdmitted |-> ~limited, inWindow |-> TRUE]
    ELSE LongEpisode

setAttemptMap(action, m) ==
    /\ loginAttempts' = IF action = "login" THEN m ELSE loginAttempts
    /\ signupAttempts' = IF action = "signup" THEN m ELSE signupAttempts
    /\ passwordResetAttempts' =
         IF action = "requestPasswordReset" THEN m ELSE passwordResetAttempts

\* The limiter found a record whose window had expired.
expired(attemptMap, identifier, windowMs, t) ==
    /\ identifier \in DOMAIN attemptMap
    /\ t - attemptMap[identifier].timestamp > windowMs

\* A variant that goes on to the provider whatever the limiter said.
ActStartLimited_checkIgnored(h, action, email) ==
    /\ call[h].pc = "idle"
    /\ action \in LimitedActions
    /\ totalCount(loginAttempts) + totalCount(signupAttempts)
         + totalCount(passwordResetAttempts) < MaxTotal
    /\ LET identifier == toLowerCase(email)
           r == isRateLimited(attemptMapOf(action), identifier,
                              maxAttemptsOf(action), windowMsOf(action), now)
           started == [Idle EXCEPT !.action = action, !.email = email,
                          !.restarted = expired(attemptMapOf(action), identifier,
                                                windowMsOf(action), now),
                          !.found = IF identifier \in DOMAIN attemptMapOf(action)
                                    THEN attemptMapOf(action)[identifier].count
                                    ELSE 0]
       IN /\ setAttemptMap(action, r.map)
          /\ episode' = [episode EXCEPT ![action][identifier] =
                            noteAttempt(@, now, windowMsOf(action), r.limited)]
          /\ call' = [call EXCEPT ![h] =
                        [started EXCEPT !.pc = "provider"]]
    /\ UNCHANGED <<routeVars, env, now, gateVars, dbVars>>

\* login / signup / requestPasswordReset, from the call up to the first
\* await: the limiter decides, synchronously.
ActStartLimited(h, action, email) ==
    /\ call[h].pc = "idle"
    /\ action \in LimitedActions
    /\ totalCount(loginAttempts) + totalCount(signupAttempts)
         + totalCount(passwordResetAttempts) < MaxTotal
    /\ LET identifier == toLowerCase(email)
           r == isRateLimited(attemptMapOf(action), identifier,
                              maxAttemptsOf(action), windowMsOf(action), now)
           started == [Idle EXCEPT !.action = action, !.email = email,
                          !.restarted = expired(attemptMapOf(action), identifier,
                                                windowMsOf(action), now),
                          !.found = IF identifier \in DOMAIN attemptMapOf(action)
                                    THEN attemptMapOf(action)[identifier].count
                                    ELSE 0]
       IN /\ setAttemptMap(action, r.map)
          /\ episode' = [episode EXCEPT ![action][identifier] =
                            noteAttempt(@, now, windowMsOf(action), r.limited)]
          /\ call' = [call EXCEPT ![h] =
                        IF r.limited
                        THEN [started EXCEPT !.pc = "done",
                                             !.result = tooManyOf(action)]
                        ELSE [started EXCEPT !.pc = "provider"]]
    /\ UNCHANGED <<routeVars, env, now, gateVars, dbVars>>

\* login / signup / requestPasswordReset called without an email (the form
\* data of a server action is whatever the client posts): `.toLowerCase()`
\* of undefined raises inside the try block, before the limiter is reached.
ActStartMalformed(h, action) ==
    /\ call[h].pc = "idle"
    /\ action \in LimitedActions
    /\ call' = [call EXCEPT ![h] =
                  [Idle EXCEPT !.pc = "done", !.action = action,
                               !.result = Unexpected]]
    /\ UNCHANGED <<routeVars, env, now, gateVars, dbVars, loginAttempts,
                   signupAttempts, passwordResetAttempts, episode>>

\* signInWithGoogle / logout / resetPassword, up to the first await.
ActStartUnlimited(h, action) ==
    /\ call[h].pc = "idle"
    /\ action \in UnlimitedActions
    /\ call' = [call EXCEPT ![h] =
                  [Idle EXCEPT !.pc = "provider", !.action = action]]
    /\ UNCHANGED <<routeVars, env, now, gateVars, dbVars, loginAttempts,
                   signupAttempts, passwordResetAttempts, episode>>

\* A variant whose catch block hands the error on to the caller.
actionResult_rethrow(action, e, outcome) ==
    IF configMissing(e) \/ outcome.threw
    THEN [type |-> "raised", text |-> ""]
    ELSE resultOf(action, outcome.error)

\* What the action returns once createClient() and the provider's call have
\* ended: createClient() raises when the Supabase URL or key is missing, the
\* provider's call may raise, and the catch block answers both.
actionResult(action, e, outcome) ==
    IF configMissing(e) \/ outcome.threw
    THEN Unexpected
    ELSE resultOf(action, outcome.error)

\* A variant that forgets the record whenever the provider has answered.
clears_onAnyAnswer(action, result) ==
    action \in LimitedActions /\ result # Unexpected

\* `<map>.delete(identifier)` is reached only on the path that returns
\* { success: true }.
clears(action, result) ==
    action \in LimitedActions /\ result = Success

\* createClient() and the provider's call end, and the action returns.
ActProvider(h, outcome) ==
    /\ call[h].pc = "provider"
    /\ outcome \in providerOutcomesOf(call[h].action)
    /\ session' = sessionAfter(call[h].action, call[h].email, env, outcome, session)
    /\ LET action == call[h].action
           identifier == toLowerCase(call[h].email)
           result == actionResult(action, env, outcome)
       IN /\ call' = [call EXCEPT
                        ![h].pc = "done", ![h].result = result,
                        ![h].provider = IF configMissing(env) THEN "not called"
                                        ELSE IF outcome.threw THEN "raised"
                                        ELSE "returned",
                        ![h].error = IF configMissing(env) THEN NoError
                                     ELSE outcome.error]
          /\ IF clears(action, result)
             THEN /\ setAttemptMap(action, mapDelete(attemptMapOf(action), identifier))
                  /\ episode' = [episode EXCEPT ![action][identifier] = NoEpisode]
             ELSE UNCHANGED <<loginAttempts, signupAttempts,
                              passwordResetAttempts, episode>>
    /\ UNCHANGED <<cb, user_profiles, ipCall, env, now, gateVars, dbVars>>

\* The caller has the result; the handler is free again.
ActReturn(h) ==
    /\ call[h].pc = "done"
    /\ call' = [call EXCEPT ![h] = Idle]
    /\ UNCHANGED <<routeVars, env, now, gateVars, dbVars, loginAttempts,
                   signupAttempts, passwordResetAttempts, episode>>

MemInit ==
    /\ loginAttempts = EmptyMap
    /\ signupAttempts = EmptyMap
    /\ passwordResetAttempts = EmptyMap
    /\ call = [h \in Handlers |-> Idle]
    /\ episode = [a \in LimitedActions |-> [i \in Identifiers |-> NoEpisode]]

(***************************************************************************)
(* The Supabase-backed attempt limiter: the rate_limit_entries table, its  *)
(* SQL functions and their TypeScript client.                              *)
(***************************************************************************)
\* The (identifier, actionKey) pairs the callers use.
LimiterKeys ==
    {<<"1.2.3.4", "login_attempt">>, <<"1.2.3.4", "access_code_validation">>,
     <<"unknown", "login_attempt">>}
MaxAttemptsChoices == {1, 2}
WindowSecondsChoices == {LOGIN_WINDOW_MS \div 1000, 2 * (LOGIN_WINDOW_MS \div 1000)}

\* How a supabase.rpc() call can end: data, an error result, a raised error.
RpcOutcomes == {"ok", "error", "throw"}

\* A variant that leaves out the row created exactly at the window's start.
countedRows_strict(table, p_identifier, p_action_key, v_window_start) ==
    {r \in BagToSet(table) :
        /\ r.identifier = p_identifier
        /\ r.action_key = p_action_key
        /\ r.created_at > v_window_start}

\* The WHERE clause of check_rate_limit: the rows it counts.
countedRows(table, p_identifier, p_action_key, v_window_start) ==
    {r \in BagToSet(table) :
        /\ r.identifier = p_identifier
        /\ r.action_key = p_action_key
        /\ r.created_at >= v_window_start}

\* COUNT(*) over the rows S of the table.
countStar(table, S) == BagCardinality([r \in S |-> table[r]])

\* A variant that still allows the caller who finds the limit reached.
check_rate_limit_inclusive(table, p_identifier, p_action_key, p_max_attempts, p_window_seconds, t) ==
    LET v_window_start == t - p_window_seconds * 1000
        v_count == countStar(table, countedRows(table, p_identifier, p_action_key,
                                                v_window_start))
    IN <<[allowed |-> v_count <= p_max_attempts,
          current_count |-> v_count,
          reset_at |-> v_window_start + p_window_seconds * 1000]>>

\* SQL check_rate_limit(...) at NOW() = t: the rows it returns.
check_rate_limit(table, p_identifier, p_action_key, p_max_attempts, p_window_seconds, t) ==
    LET v_window_start == t - p_window_seconds * 1000
        v_count == countStar(table, countedRows(table, p_identifier, p_action_key,
                                                v_window_start))
    IN <<[allowed |-> v_count < p_max_attempts,
          current_count |-> v_count,
          reset_at |-> v_window_start + p_window_seconds * 1000]>>

\* SQL record_rate_limit_attempt(...) at NOW() = t: the table afterwards.
record_rate_limit_attempt(table, p_identifier, p_action_key, t) ==
    table (+) SetToBag({[identifier |-> p_identifier, action_key |-> p_action_key,
                         created_at |-> t]})

max(a, b) == IF a >= b THEN a ELSE b

failOpen(maxAttempts, windowSeconds, t) ==
    [allowed |-> TRUE, remaining |-> maxAttempts,
     resetAt |-> t + windowSeconds * 1000]

\* A variant that denies the request when the rpc call fails.
checkRateLimit_failClosed(e, table, identifier, actionKey, maxAttempts, windowSeconds, outcome, t) ==
    IF e.NODE_ENV = "development"
    THEN failOpen(maxAttempts, windowSeconds, t)
    ELSE IF configMissing(e) \/ outcome = "throw"
    THEN failOpen(maxAttempts, windowSeconds, t)
    ELSE IF outcome = "error"
    THEN [allowed |-> FALSE, remaining |-> 0, resetAt |-> t + windowSeconds * 1000]
    ELSE LET data == check_rate_limit(table, identifier, actionKey, maxAttempts,
                                      windowSeconds, t)
         IN [allowed |-> data[1].allowed,
             remaining |-> max(0, maxAttempts - data[1].current_count),
             resetAt |-> data[1].reset_at]

\* checkRateLimit(identifier, actionKey, maxAttempts, windowSeconds) at time
\* t, the rpc call ending as `outcome`: the RateLimitResult it resolves to.
checkRateLimit(e, table, identifier, actionKey, maxAttempts, windowSeconds, outcome, t) ==
    IF e.NODE_ENV = "development"
    THEN failOpen(maxAttempts, windowSeconds, t)
    ELSE IF configMissing(e) \/ outcome = "throw"
    THEN failOpen(maxAttempts, windowSeconds, t)
    ELSE IF outcome = "error"
    THEN failOpen(maxAttempts, windowSeconds, t)
    ELSE LET data == check_rate_limit(table, identifier, actionKey, maxAttempts,
                                      windowSeconds, t)
             result == IF Len(data) >= 1 THEN data[1]
                       ELSE [allowed |-> TRUE, current_count |-> 0, reset_at |-> t]
         IN [allowed |-> result.allowed,
             remaining |-> max(0, maxAttempts - result.current_count),
             resetAt |-> result.reset_at]

\* recordRateLimitAttempt(identifier, actionKey) at time t, the rpc call
\* ending as `outcome`: the table afterwards and how the call completes.
recordRateLimitAttempt(e, table, identifier, actionKey, outcome, t) ==
    IF e.NODE_ENV = "development"
    THEN [table |-> table, completion |-> "returned"]
    ELSE IF configMissing(e) \/ outcome = "throw"
    THEN [table |-> table, completion |-> "returned"]
    ELSE IF outcome = "error"
    THEN [table |-> table, completion |-> "returned"]
    ELSE [table |-> record_rate_limit_attempt(table, identifier, actionKey, t),
          completion |-> "returned"]

NoLimitResult == [allowed |-> TRUE, remaining |-> 0, resetAt |-> 0]

NoOp == [op |-> "none", identifier |-> "", actionKey |-> "", maxAttempts |-> 0,
         windowSeconds |-> 0, outcome |-> "", at |-> 0,
         result |-> NoLimitResult, completion |-> "", deleted |-> 0]

\* A caller awaits checkRateLimit(...).
CheckRateLimit(identifier, actionKey, maxAttempts, windowSeconds, outcome) ==
    /\ lastOp' = [op |-> "check", identifier |-> identifier,
                  actionKey |-> actionKey, maxAttempts |-> maxAttempts,
                  windowSeconds |-> windowSeconds, outcome |-> outcome, at |-> now,
                  result |-> checkRateLimit(env, rows, identifier, actionKey,
                                            maxAttempts, windowSeconds, outcome, now),
                  completion |-> "returned", deleted |-> 0]
    /\ UNCHANGED <<routeVars, env, now, gateVars, memVars, rows, sa>>

\* A caller awaits recordRateLimitAttempt(...).
RecordRateLimitAttempt(identifier, actionKey, outcome) ==
    /\ BagCardinality(rows) < MaxRows
    /\ LET r == recordRateLimitAttempt(env, rows, identifier, actionKey, outcome, now)
       IN /\ rows' = r.table
          /\ lastOp' = [NoOp EXCEPT !.op = "record", !.identifier = identifier,
                          !.actionKey = actionKey, !.outcome = outcome, !.at = now,
                          !.completion = r.completion]
    /\ UNCHANGED <<routeVars, env, now, gateVars, memVars, sa>>

\* INTERVAL '24 hours', in milliseconds.
RetentionMs == 24 * 60 * 60 * 1000

\* A day passes.
TickDay ==
    /\ now < MaxDays * RetentionMs
    /\ now' = now + RetentionMs
    /\ UNCHANGED <<routeVars, env, gateVars, memVars, dbVars>>

\* The rows the DELETE of cleanup_old_rate_limit_entries() removes at
\* NOW() = t.
oldRows(table, t) == {r \in BagToSet(table) : r.created_at < t - RetentionMs}

\* A variant that also removes the row that is exactly 24 hours old.
cleanup_old_rate_limit_entries_inclusive(table, t) ==
    LET kept == {r \in BagToSet(table) : ~(r.created_at <= t - RetentionMs)}
    IN [r \in kept |-> table[r]]

\* SQL cleanup_old_rate_limit_entries() at NOW() = t: the table afterwards.
cleanup_old_rate_limit_entries(table, t) ==
    LET kept == BagToSet(table) \ oldRows(table, t)
    IN [r \in kept |-> table[r]]

\* The scheduled job runs cleanup_old_rate_limit_entries().
Cleanup ==
    /\ rows' = cleanup_old_rate_limit_entries(rows, now)
    /\ lastOp' = [NoOp EXCEPT !.op = "cleanup", !.at = now,
                    !.completion = "returned",
                    !.deleted = BagCardinality(rows) - BagCardinality(rows')]
    /\ UNCHANGED <<routeVars, env, now, gateVars, memVars, sa>>

(***************************************************************************)
(* The Upstash-backed rate limiter.                                        *)
(***************************************************************************)
\* `Date.now() + 1000` of the module's load, taken at time 0.
defaultRateLimitResponse == [allowed |-> TRUE, remaining |-> 999, resetAt |-> 1000]

isUpstashConfigured(e) ==
    ~falsy(e.UPSTASH_REDIS_REST_URL) /\ ~falsy(e.UPSTASH_REDIS_REST_TOKEN)

\* How ratelimit.limit(identifier) of @upstash/ratelimit can end.
UpstashOutcomes == {"success", "limited", "throw"}

\* createRateLimiter(requests, duration).limit(identifier), the library's
\* call ending as `outcome` at time t: the response (its `success` is the
\* field `allowed` here).
limit(e, requests, outcome, t) ==
    IF e.NODE_ENV = "development" \/ ~isUpstashConfigured(e)
    THEN defaultRateLimitResponse
    ELSE IF outcome = "throw" THEN defaultRateLimitResponse
    ELSE [allowed |-> outcome = "success",
          remaining |-> IF outcome = "success" THEN requests - 1 ELSE 0,
          resetAt |-> t + LOGIN_WINDOW_MS]

UpstashLimit(identifier, requests, outcome) ==
    /\ lastOp' = [NoOp EXCEPT !.op = "limit", !.identifier = identifier,
                    !.maxAttempts = requests, !.outcome = outcome, !.at = now,
                    !.result = limit(env, requests, outcome, now),
                    !.completion = "returned"]
    /\ UNCHANGED <<routeVars, env, now, gateVars, memVars, rows, sa>>

(***************************************************************************)
(* The documented use of the persistent limiter: someServerAction checks,  *)
(* performs the action and, when the action failed, records the attempt,   *)
(* each an await of its own. Handlers run it concurrently.                 *)
(***************************************************************************)
UsageClientIp == "1.2.3.4"
UsageActionKey == "login_attempt"
UsageMaxAttempts == 5
UsageWindowSeconds == 3600

SaIdle == [pc |-> "idle", allowed |-> FALSE]

\* The check was not answered by the database's count: the rpc call failed
\* and checkRateLimit let the caller through.
failedOpen(e, outcome) ==
    e.NODE_ENV # "development" /\ (configMissing(e) \/ outcome # "ok")

\* `await checkRateLimit(clientIp, "login_attempt", 5, 3600)` and the
\* `if (!allowed) return { error }` after it.
SaCheck(h, outcome) ==
    /\ sa.calls[h].pc = "idle"
    /\ failedOpen(env, outcome) => sa.opened < MaxFailOpen
    /\ LET r == checkRateLimit(env, rows, UsageClientIp, UsageActionKey,
                               UsageMaxAttempts, UsageWindowSeconds, outcome, now)
       IN sa' = [calls |-> [sa.calls EXCEPT ![h] =
                              [pc |-> IF r.allowed THEN "acting" ELSE "done",
                               allowed |-> r.allowed]],
                 opened |-> sa.opened + (IF failedOpen(env, outcome) THEN 1 ELSE 0)]
    /\ UNCHANGED <<routeVars, env, now, gateVars, memVars, rows, lastOp>>

\* `// ... perform the action ...` ends, with success or without.
SaAct(h, success) ==
    /\ sa.calls[h].pc = "acting"
    /\ sa' = [sa EXCEPT !.calls[h].pc = IF success THEN "done" ELSE "recording"]
    /\ UNCHANGED <<routeVars, env, now, gateVars, memVars, rows, lastOp>>

\* `await recordRateLimitAttempt(clientIp, "login_attempt")`
SaRecord(h, outcome) ==
    /\ sa.calls[h].pc = "recording"
    /\ rows' = recordRateLimitAttempt(env, rows, UsageClientIp, UsageActionKey,
                                      outcome, now).table
    /\ sa' = [sa EXCEPT !.calls[h].pc = "done"]
    /\ UNCHANGED <<routeVars, env, now, gateVars, memVars, lastOp>>

\* someServerAction has returned; the handler takes the next call.
SaReturn(h) ==
    /\ sa.calls[h].pc = "done"
    /\ sa' = [sa EXCEPT !.calls[h] = SaIdle]
    /\ UNCHANGED <<routeVars, env, now, gateVars, memVars, rows, lastOp>>

DbInit ==
    /\ rows = EmptyBag
    /\ lastOp = NoOp
    /\ sa = [calls |-> [h \in Handlers |-> SaIdle], opened |-> 0]

(***************************************************************************)
(* The OAuth callback route: GET /api/callback.                            *)
(***************************************************************************)
\* URLSearchParams.get: a value, or null when the parameter is absent.
Absent == [present |-> FALSE, value |-> ""]
Param(v) == [present |-> TRUE, value |-> v]

CodeParams == {Absent, Param(""), Param("c0de")}
NextParams ==
    {Absent, Param("/settings"), Param(""), Param("//evil.example/x"),
     Param("https://evil.example/x")}

\* `searchParams.get('next') ?? '/dashboard'`
nextOf(param) == IF param.present THEN param.value ELSE "/dashboard"

\* new URL(next, origin).toString(), for the kinds of reference the model
\* uses: absolute, scheme-relative, path-absolute and empty.
resolveUrl(next, origin) ==
    IF startsWith(next, "https://") \/ startsWith(next, "http://") THEN next
    ELSE IF startsWith(next, "//")
         THEN (IF startsWith(origin, "https:") THEN "https:" ELSE "http:") \o next
    ELSE IF startsWith(next, "/") THEN origin \o next
    ELSE origin \o "/" \o next

\* new URL('/login', origin) with searchParams.set('error', message)
loginErrorUrl(origin, message) ==
    origin \o "/login" \o "?" \o "error=" \o formEncode(message)

AuthenticationFailed == "Authentication failed"
RegistrationsClosed ==
    "New registrations are currently closed. Please contact the administrator."

\* How supabase.auth.exchangeCodeForSession(code) can end.
ExchangeOutcomes ==
    {[kind |-> "error", user |-> NoUser], [kind |-> "no user", user |-> NoUser],
     [kind |-> "threw", user |-> NoUser]}
    \cup {[kind |-> "user", user |-> u] : u \in UserIds}

\* How `.from('user_profiles').select('id').eq('id', id).single()` can end
\* for a user: the row, PGRST116 when there is no row, or another error.
PGRST116 == "PGRST116"
LookupResults ==
    {[profile |-> TRUE, code |-> ""], [profile |-> FALSE, code |-> PGRST116],
     [profile |-> FALSE, code |-> "57014"]}

\* The results the lookup of a user can have, given the table.
LookupOutcomes(table, id) ==
    {IF id \in table THEN [profile |-> TRUE, code |-> ""]
                     ELSE [profile |-> FALSE, code |-> PGRST116],
     [profile |-> FALSE, code |-> "57014"]}

\* How supabase.auth.signOut() can end: the session is removed, an error is
\* returned and the session is kept, or the call raises.
SignOutOutcomes == {"ok", "error", "threw"}

\* How `.from('user_profiles').insert(row)` can end.
InsertOutcomes == {"ok", "error"}

CbIdle ==
    [pc |-> "idle", origin |-> "", code |-> Absent, next |-> Absent,
     user |-> NoUser, lookup |-> "not called", signOut |-> "not called",
     insert |-> "not called", before |-> {}, response |-> NoResult]

\* A variant that takes the new-user branch on any lookup error.
isNewUser_anyError(outcome) == outcome.code # ""

\* `profileError && profileError.code === 'PGRST116'`
isNewUser(outcome) == outcome.code # "" /\ outcome.code = PGRST116

\* GET(request) up to its first await: no code, or createClient().
CbReceive(origin, code, next) ==
    /\ cb.pc = "idle"
    /\ cb' = LET received == [CbIdle EXCEPT !.origin = origin, !.code = code,
                                 !.next = next, !.before = user_profiles]
             IN IF code.present /\ ~falsy(code.value)
                THEN IF configMissing(env)
                     THEN [received EXCEPT !.pc = "done", !.response = Raised]
                     ELSE [received EXCEPT !.pc = "exchange"]
                ELSE [received EXCEPT !.pc = "done", !.response =
                        NextResponseRedirect(loginErrorUrl(origin, AuthenticationFailed))]
    /\ UNCHANGED <<env, now, gateVars, memVars, dbVars, session, user_profiles, ipCall>>

\* exchangeCodeForSession(code) ends.
CbExchange(outcome) ==
    /\ cb.pc = "exchange"
    /\ cb' = CASE outcome.kind = "threw" ->
                    [cb EXCEPT !.pc = "done", !.response = Raised]
               [] outcome.kind \in {"error", "no user"} ->
                    [cb EXCEPT !.pc = "done", !.response =
                        NextResponseRedirect(loginErrorUrl(cb.origin, AuthenticationFailed))]
               [] outcome.kind = "user" ->
                    [cb EXCEPT !.pc = "lookup", !.user = outcome.user]
    /\ session' = IF outcome.kind = "user" THEN outcome.user ELSE session
    /\ UNCHANGED <<env, now, gateVars, memVars, dbVars, user_profiles, ipCall>>

\* The profile lookup ends.
CbLookup(outcome) ==
    /\ cb.pc = "lookup"
    /\ outcome \in LookupOutcomes(user_profiles, cb.user)
    /\ cb' = LET looked == [cb EXCEPT !.lookup = IF outcome.profile THEN "found"
                                                 ELSE outcome.code]
             IN IF isNewUser(outcome)
                THEN IF ~isGoogleSignupAllowed(env)
                     THEN [looked EXCEPT !.pc = "signOut"]
                     ELSE [looked EXCEPT !.pc = "insert"]
                ELSE [looked EXCEPT !.pc = "done", !.response =
                        NextResponseRedirect(resolveUrl(nextOf(cb.next), cb.origin))]
    /\ UNCHANGED <<env, now, gateVars, memVars, dbVars, session, user_profiles, ipCall>>

\* supabase.auth.signOut() ends; its result is not looked at.
CbSignOut(outcome) ==
    /\ cb.pc = "signOut"
    /\ cb' = [cb EXCEPT !.pc = "done", !.signOut = outcome,
                        !.response =
                            IF outcome = "threw" THEN Raised
                            ELSE NextResponseRedirect(
                                    loginErrorUrl(cb.origin, RegistrationsClosed))]
    /\ session' = IF outcome = "ok" THEN NoUser ELSE session
    /\ UNCHANGED <<env, now, gateVars, memVars, dbVars, user_profiles, ipCall>>

\* The insert into user_profiles ends; insertError is only logged.
CbInsert(outcome) ==
    /\ cb.pc = "insert"
    /\ cb' = [cb EXCEPT !.pc = "done", !.insert = outcome,
                        !.response =
                            NextResponseRedirect(resolveUrl(nextOf(cb.next), cb.origin))]
    /\ user_profiles' = IF outcome = "ok" THEN user_profiles \cup {cb.user}
                        ELSE user_profiles
    /\ UNCHANGED <<env, now, gateVars, memVars, dbVars, session, ipCall>>

\* The response has been sent; the route takes the next request.
CbDone ==
    /\ cb.pc = "done"
    /\ cb' = CbIdle
    /\ UNCHANGED <<env, now, gateVars, memVars, dbVars, session, user_profiles, ipCall>>

(***************************************************************************)
(* getClientIp.                                                            *)
(***************************************************************************)
\* What Headers.get returns for x-forwarded-for and x-real-ip.
ForwardedForValues ==
    {Absent, Param(""), Param("1.2.3.4"), Param("1.2.3.4, 5.6.7.8"),
     Param("1.2.3.4 ,5.6.7.8"), Param(",5.6.7.8"), Param(" ,"),
     Param("a b,c")}
RealIpValues == {Absent, Param(""), Param("9.9.9.9"), Param("9.9.9.9, 8.8.8.8")}

HeaderSets == [forwardedFor : ForwardedForValues, realIp : RealIpValues]

WhiteSpace == {" ", "\t", "\n", "\r"}

RECURSIVE indexOfFrom(_, _, _)
indexOfFrom(s, c, i) ==
    IF i > Len(s) THEN 0
    ELSE IF charAt(s, i) = c THEN i ELSE indexOfFrom(s, c, i + 1)

\* s.split(',')[0]
firstField(s) ==
    LET i == indexOfFrom(s, ",", 1) IN IF i = 0 THEN s ELSE SubSeq(s, 1, i - 1)

RECURSIVE trimStart(_)
trimStart(s) ==
    IF Len(s) > 0 /\ charAt(s, 1) \in WhiteSpace
    THEN trimStart(SubSeq(s, 2, Len(s))) ELSE s

RECURSIVE trimEnd(_)
trimEnd(s) ==
    IF Len(s) > 0 /\ charAt(s, Len(s)) \in WhiteSpace
    THEN trimEnd(SubSeq(s, 1, Len(s) - 1)) ELSE s

\* String.prototype.trim
trim(s) == trimEnd(trimStart(s))

\* `if (value)` on the string | null that Headers.get returns.
truthy(param) == param.present /\ ~falsy(param.value)

\* A variant that returns the first field as it stands.
getClientIp_untrimmed(headers) ==
    IF truthy(headers.forwardedFor) THEN firstField(headers.forwardedFor.value)
    ELSE IF truthy(headers.realIp) THEN headers.realIp.value
    ELSE "unknown"

getClientIp(headers) ==
    IF truthy(headers.forwardedFor) THEN trim(firstField(headers.forwardedFor.value))
    ELSE IF truthy(headers.realIp) THEN headers.realIp.value
    ELSE "unknown"

NoIpCall == [called |-> FALSE, headers |-> [forwardedFor |-> Absent, realIp |-> Absent], result |-> ""]

\* A caller asks for the client address of a request.
GetClientIp(headers) ==
    /\ ipCall' = [called |-> TRUE, headers |-> headers, result |-> getClientIp(headers)]
    /\ UNCHANGED <<env, now, gateVars, memVars, dbVars, cb, session, user_profiles>>

RouteInit ==
    /\ cb = CbIdle
    /\ session = NoUser
    /\ user_profiles = {}
    /\ ipCall = NoIpCall

Init ==
    /\ env \in EnvConfigs
    /\ now = 0
    /\ GateInit
    /\ MemInit
    /\ DbInit
    /\ RouteInit

NextGate ==
    \/ \E o \in Origins, p \in Pathnames, c \in RequestCookieJars : MwReceive(o, p, c)
    \/ \E b \in CookieBatches : MwSetAll(b)
    \/ \E r \in VerificationOutcomes : MwGetUserReturns(r)
    \/ MwDone

SpecGate == Init /\ [][NextGate]_vars

\* The rate-limited server actions called one at a time: a call returns
\* before the next is made.
\* The provider accepts the call, rejects it or raises; which error it
\* reports is explored under SpecActions.
MemOutcomes ==
    {o \in ProviderOutcomes : o.error \in {NoError, "Invalid login credentials"}}

NextMem ==
    \/ \E a \in LimitedActions, e \in Emails : ActStartLimited(1, a, e)
    \/ \E o \in MemOutcomes : ActProvider(1, o)
    \/ ActReturn(1)
    \/ Tick

SpecMem == Init /\ [][NextMem]_vars

NextLimiter ==
    \/ \E k \in LimiterKeys, m \in MaxAttemptsChoices,
          w \in WindowSecondsChoices, o \in RpcOutcomes :
            CheckRateLimit(k[1], k[2], m, w, o)
    \/ \E k \in LimiterKeys, o \in RpcOutcomes :
            RecordRateLimitAttempt(k[1], k[2], o)
    \/ \E o \in UpstashOutcomes : UpstashLimit("1.2.3.4", 5, o)
    \/ Tick

SpecLimiter == Init /\ [][NextLimiter]_vars

\* The six server actions called one at a time, with well-formed and
\* malformed input.
NextActions ==
    \/ \E a \in LimitedActions, e \in Emails : ActStartLimited(1, a, e)
    \/ \E a \in LimitedActions : ActStartMalformed(1, a)
    \/ \E a \in UnlimitedActions : ActStartUnlimited(1, a)
    \/ \E o \in ProviderOutcomes : ActProvider(1, o)
    \/ ActReturn(1)

SpecActions == Init /\ [][NextActions]_vars

\* Concurrent handlers signing up one email address: the calls interleave at
\* their awaits.
RaceEmail == "user@x.io"

\* signUp accepts the registration, the email still to be confirmed, or
\* rejects it.
RaceOutcomes ==
    {o \in ProviderOutcomes :
        ~o.threw /\ ~o.session /\ o.error \in {NoError, "Email rate limit exceeded"}}

NextRace ==
    \/ \E h \in Handlers : ActStartLimited(h, "signup", RaceEmail)
    \/ \E h \in Handlers, o \in RaceOutcomes : ActProvider(h, o)
    \/ \E h \in Handlers : ActReturn(h)
    \/ Tick

SpecRace == Init /\ [][NextRace]_vars

\* Concurrent handlers running someServerAction for one client and action.
NextUsage ==
    \/ \E h \in Handlers, o \in RpcOutcomes : SaCheck(h, o)
    \/ \E h \in Handlers, success \in BOOLEAN : SaAct(h, success)
    \/ \E h \in Handlers, o \in RpcOutcomes : SaRecord(h, o)
    \/ \E h \in Handlers : SaReturn(h)

SpecUsage == Init /\ [][NextUsage]_vars

\* The persistent limiter over days: attempts are recorded and the cleanup
\* job runs.
NextCleanup ==
    \/ \E k \in LimiterKeys, o \in RpcOutcomes :
            RecordRateLimitAttempt(k[1], k[2], o)
    \/ Cleanup
    \/ Tick
    \/ TickDay

SpecCleanup == Init /\ [][NextCleanup]_vars

\* The OAuth callback route handling one request after another.
NextCallback ==
    \/ \E o \in Origins, c \in CodeParams, n \in NextParams : CbReceive(o, c, n)
    \/ \E o \in ExchangeOutcomes : CbExchange(o)
    \/ \E o \in LookupResults : CbLookup(o)
    \/ \E o \in SignOutOutcomes : CbSignOut(o)
    \/ \E o \in InsertOutcomes : CbInsert(o)
    \/ CbDone

SpecCallback == Init /\ [][NextCallback]_vars

NextIp == \E h \in HeaderSets : GetClientIp(h)

SpecIp == Init /\ [][NextIp]_vars

(***************************************************************************)
(* Properties of the session gate.                                         *)
(***************************************************************************)
\* Session verification returned and yielded no user.
Unauthenticated == verification \in {"nouser", "error"}

\* The value of the redirectTo parameter of a /login redirect, as
\* URLSearchParams.get parses it back; "" when the location is no such URL.
redirectToOf(location, origin) ==
    LET prefix == origin \o "/login?redirectTo=" IN
    IF startsWith(location, prefix)
    THEN formDecode(SubSeq(location, Len(prefix) + 1, Len(location)))
    ELSE ""

RedirectsToLogin ==
    /\ mwResult.kind = "redirect"
    /\ startsWith(mwResult.location, request.origin \o "/login?redirectTo=")
    /\ redirectToOf(mwResult.location, request.origin) = request.pathname

\* C1 as stated: every request of an unauthenticated visitor for a path that
\* is not public is answered by a redirect to /login whose redirectTo
\* parameter is the original path.
C1_AsStated ==
    (mwPc = "done" /\ Unauthenticated /\ ~isPublicRoute(request.pathname))
        => RedirectsToLogin

\* C1 amended: every request of an unauthenticated visitor for a path that is
\* not public and does not start with /api/ or /auth/ is answered by a
\* redirect to /login whose redirectTo parameter, parsed back, is the
\* original path.
C1_LoginRedirect ==
    (mwPc = "done" /\ Unauthenticated /\ ~isPublicRoute(request.pathname)
        /\ ~startsWith(request.pathname, "/api/")
        /\ ~startsWith(request.pathname, "/auth/"))
        => RedirectsToLogin

C1_Witness ==
    /\ mwPc = "done" /\ verification = "nouser"
    /\ request.pathname = "/dashboard/a+b%20c"
    /\ mwResult.kind = "redirect"
    /\ mwResult.location =
         "https://app.example/login?redirectTo=%2Fdashboard%2Fa%2Bb%2520c"

\* C2: an authenticated visitor asking for /login, /register or
\* /forgot-password is redirected to /dashboard, and one asking for
\* /reset-password gets Continue.
C2_AuthPages ==
    (mwPc = "done" /\ verification = "user") =>
        /\ request.pathname \in {"/login", "/register", "/forgot-password"}
             => /\ mwResult.kind = "redirect"
                /\ mwResult.location = request.origin \o "/dashboard"
        /\ request.pathname = "/reset-password"
             => /\ mwResult.kind = "next"
                /\ mwResult = supabaseResponse

C2_Witness ==
    /\ mwPc = "done" /\ verification = "user"
    /\ request.pathname = "/reset-password"
    /\ mwResult.kind = "next"

\* C3: an unauthenticated visitor asking for a path of the public set
\* (/, /login, /register, /forgot-password, /reset-password) gets Continue,
\* never a redirect.
C3_PublicContinue ==
    (mwPc = "done" /\ Unauthenticated
        /\ request.pathname \in
             {"/", "/login", "/register", "/forgot-password", "/reset-password"})
        => (mwResult.kind = "next" /\ mwResult = supabaseResponse)

C3_Witness ==
    /\ mwPc = "done" /\ verification = "nouser"
    /\ request.pathname = "/forgot-password"
    /\ mwResult.kind = "next"

\* C4: a request whose path starts with /api/ or /auth/ is never answered by
\* a redirect, and gets Continue whether session verification yielded a user
\* or none (and when it was not made at all).
C4_Bypassed ==
    (mwPc = "done"
        /\ (startsWith(request.pathname, "/api/")
            \/ startsWith(request.pathname, "/auth/")))
        => /\ mwResult.kind # "redirect"
           /\ verification # "throw"
                => (mwResult.kind = "next" /\ mwResult = supabaseResponse)

C4_Witness ==
    /\ mwPc = "done" /\ verification = "nouser"
    /\ request.pathname = "/api/callback"
    /\ mwResult.kind = "next"

\* C5: with the provider URL or the provider key absent the middleware
\* returns Continue with the unmodified response, for every path and cookie
\* state, without calling session verification and without redirecting.
C5_FailOpenOnMissingConfig ==
    (env.NEXT_PUBLIC_SUPABASE_URL = "" \/ env.NEXT_PUBLIC_SUPABASE_ANON_KEY = "")
        => /\ getUserCalls = 0
           /\ setAllCalls = 0
           /\ mwPc # "getUser"
           /\ mwPc = "done"
                => /\ mwResult.kind = "next"
                   /\ mwResult.cookies = EmptyJar
                   /\ mwResult = NextResponseNext(request)

C5_Witness ==
    /\ mwPc = "done"
    /\ env.NEXT_PUBLIC_SUPABASE_URL # "" /\ env.NEXT_PUBLIC_SUPABASE_ANON_KEY = ""
    /\ request.pathname = "/dashboard"
    /\ SessionCookie \in DOMAIN request.cookies
    /\ mwResult.kind = "next"

\* C6 as stated: when the session verification call fails, by an error
\* result or by a raised error, the middleware decides exactly as for a
\* visitor with no user, and the call was made exactly once.
C6_AsStated ==
    (mwPc = "done" /\ verification \in {"error", "throw"})
        => /\ mwResult = decide(request, FALSE, supabaseResponse)
           /\ getUserCalls = 1

\* C7 as stated: whichever decision the middleware reaches, Continue or a
\* redirect, the response it returns carries every cookie session
\* verification handed back, with Secure set exactly in production,
\* SameSite=Lax and every other attribute unchanged.
C7_AsStated ==
    (mwPc = "done" /\ mwResult.kind \in {"next", "redirect"}) =>
        \A n \in DOMAIN handedBack :
            /\ n \in DOMAIN mwResult.cookies
            /\ mwResult.cookies[n].value = handedBack[n].value
            /\ mwResult.cookies[n].options =
                 [handedBack[n].options EXCEPT
                    !.secure = (env.NODE_ENV = "production"),
                    !.sameSite = "lax"]

(***************************************************************************)
(* Properties of the attempt limiters.                                     *)
(***************************************************************************)
\* The threshold the claim gives for each action.
C8_N(action) == IF action = "login" THEN 5 ELSE 3

\* C8: starting from no record, of the attempts made for one identifier
\* within one window (60 s) of the first, none of them successful, the first
\* N are admitted and every later one is denied (N = 5 for login, 3 for
\* signup and password reset): the k-th attempt is admitted exactly when
\* k <= N, and the caller is told so.
C8_Threshold ==
    \A a \in LimitedActions : \A i \in Identifiers :
        LET ep == episode[a][i] IN
        (ep.inWindow /\ ep.n >= 1) =>
            /\ ep.lastAdmitted <=> ep.n <= C8_N(a)
            /\ ep.admitted = (IF ep.n <= C8_N(a) THEN ep.n ELSE C8_N(a))
            /\ now - ep.first <= 60000
                 => \A h \in Handlers :
                      (call[h].pc = "done" /\ call[h].action = a
                        /\ toLowerCase(call[h].email) = i)
                        => (call[h].result = tooManyOf(a) <=> ep.n > C8_N(a))

C8_Witness ==
    /\ episode["login"]["user@x.io"].inWindow
    /\ episode["login"]["user@x.io"].n = 6
    /\ episode["login"]["user@x.io"].admitted = 5
    /\ call[1].pc = "done" /\ call[1].action = "login"
    /\ call[1].result = Failure("Too many login attempts. Please try again later.")

\* The last limiter call was a checkRateLimit whose rpc call reached the
\* database and returned its row, and nothing has happened since.
C9_Checked ==
    /\ lastOp.op = "check" /\ lastOp.at = now
    /\ lastOp.outcome = "ok"
    /\ env.NODE_ENV # "development"
    /\ env.NEXT_PUBLIC_SUPABASE_URL # "" /\ env.NEXT_PUBLIC_SUPABASE_ANON_KEY # ""

\* The recorded attempts of the checked (identifier, actionKey) that are not
\* older than windowSeconds.
C9_Count ==
    LET counted == {r \in DOMAIN rows :
                      /\ r.identifier = lastOp.identifier
                      /\ r.action_key = lastOp.actionKey
                      /\ now - r.created_at <= lastOp.windowSeconds * 1000}
        RECURSIVE copies(_)
        copies(S) == IF S = {} THEN 0
                     ELSE LET r == CHOOSE x \in S : TRUE
                          IN rows[r] + copies(S \ {r})
    IN copies(counted)

\* C9: a checkRateLimit answered by the database returns
\* allowed = (count < maxAttempts), count being the recorded attempts of that
\* (identifier, actionKey) with timestamp >= now - windowSeconds, each
\* attempt counted for as long as it is not older than windowSeconds.
C9_SlidingWindow ==
    C9_Checked =>
        /\ lastOp.result.allowed <=> C9_Count < lastOp.maxAttempts
        /\ lastOp.result.remaining =
             (IF C9_Count < lastOp.maxAttempts THEN lastOp.maxAttempts - C9_Count
              ELSE 0)

\* Two attempts of one key, the older one out of the window and the newer one
\* in it: the check counts one.
C9_Witness ==
    /\ C9_Checked
    /\ lastOp.windowSeconds = 60 /\ lastOp.maxAttempts = 2
    /\ now = 120000
    /\ DOMAIN rows =
         {[identifier |-> lastOp.identifier, action_key |-> lastOp.actionKey,
           created_at |-> 0],
          [identifier |-> lastOp.identifier, action_key |-> lastOp.actionKey,
           created_at |-> 60000]}
    /\ lastOp.result.allowed /\ lastOp.result.remaining = 1

\* The backend call of the last limiter call failed: an error result, a
\* raised error, or no client for want of configuration.
C10_BackendFailed ==
    \/ lastOp.outcome \in {"error", "throw"}
    \/ (lastOp.op \in {"check", "record"}
        /\ (env.NEXT_PUBLIC_SUPABASE_URL = "" \/ env.NEXT_PUBLIC_SUPABASE_ANON_KEY = ""))

\* C10: a check whose backend call fails reports allowed = true with
\* remaining = maxAttempts; a record whose backend call fails returns
\* normally; a failing Upstash call reports success: no failure of the
\* limiter's infrastructure denies a request.
C10_FailOpen ==
    C10_BackendFailed =>
        /\ lastOp.completion = "returned"
        /\ lastOp.op \in {"check", "limit"} => lastOp.result.allowed
        /\ lastOp.op = "check" => lastOp.result.remaining = lastOp.maxAttempts

\* A check that would have been denied, had the database answered.
C10_Witness ==
    /\ lastOp.op = "check" /\ lastOp.at = now /\ lastOp.outcome = "error"
    /\ env.NODE_ENV = "production"
    /\ env.NEXT_PUBLIC_SUPABASE_URL # "" /\ env.NEXT_PUBLIC_SUPABASE_ANON_KEY # ""
    /\ lastOp.maxAttempts = 1
    /\ \E r \in DOMAIN rows :
         /\ r.identifier = lastOp.identifier
         /\ r.action_key = lastOp.actionKey
         /\ r.created_at = now
    /\ lastOp.result.allowed /\ lastOp.result.remaining = 1

(***************************************************************************)
(* Properties of the server actions and of their in-memory limiter.        *)
(***************************************************************************)
TooMany == {tooManyOf(a) : a \in LimitedActions}

\* C11 as stated, for the in-memory limiter of the auth actions: in
\* local-development mode (NODE_ENV = development) no attempt is denied
\* and no attempt is recorded.
C11_AsStated ==
    env.NODE_ENV = "development" =>
        /\ loginAttempts = EmptyMap
        /\ signupAttempts = EmptyMap
        /\ passwordResetAttempts = EmptyMap
        /\ \A h \in Handlers : call[h].result \notin TooMany

attemptMapOfNext(action) ==
    CASE action = "login" -> loginAttempts'
      [] action = "signup" -> signupAttempts'
      [] action = "requestPasswordReset" -> passwordResetAttempts'

\* Handler 1 completes a call of action a for identifier i in this step.
C12_Completes(a, i) ==
    /\ call[1].pc = "provider" /\ call'[1].pc = "done"
    /\ call[1].action = a /\ toLowerCase(call[1].email) = i

C12_Step(a, i) ==
    LET m == attemptMapOf(a)
        m2 == attemptMapOfNext(a)
    IN \* removed exactly by a successful completion
       /\ (i \in DOMAIN m /\ i \notin DOMAIN m2)
            <=> (C12_Completes(a, i) /\ call'[1].result = Success)
       \* a failed or errored completion leaves the map as it is
       /\ (C12_Completes(a, i) /\ call'[1].result # Success) => m2 = m
       \* a denied attempt adds one to the count and keeps the window
       /\ (call[1].pc = "idle" /\ call'[1].action = a /\ call'[1].result \in TooMany
             /\ toLowerCase(call'[1].email) = i)
            => /\ i \in DOMAIN m
               /\ m2[i] = [count |-> m[i].count + 1, timestamp |-> m[i].timestamp]
       \* a record changes only in the check of an attempt: one more in its
       \* window, or started again at 1 once its window has expired
       /\ (i \in DOMAIN m /\ i \in DOMAIN m2 /\ m2[i] # m[i])
            => /\ call[1].pc = "idle" /\ call'[1].action = a
               /\ m2[i] = IF expired(m, i, windowMsOf(a), now)
                          THEN [count |-> 1, timestamp |-> now]
                          ELSE [count |-> m[i].count + 1, timestamp |-> m[i].timestamp]
       \* with no record, the next attempt is the first of a fresh window
       /\ (i \notin DOMAIN m /\ i \in DOMAIN m2)
            => /\ m2[i] = [count |-> 1, timestamp |-> now]
               /\ call'[1].pc = "provider" /\ call'[1].action = a

\* C12, corrected: the record of an identifier is removed exactly when the
\* action completes successfully for it, and the next attempt is then the
\* first of a fresh window (count 1, admitted); a failed or errored
\* completion leaves the record as it is and a denied attempt only adds to
\* its count; the one other way a record starts again is an attempt whose
\* check finds the window expired, which sets it to count 1 whatever the
\* attempt's outcome turns out to be.
C12_RemovedOnSuccessOnly ==
    [][\A a \in LimitedActions : \A i \in Identifiers : C12_Step(a, i)]_vars

\* C12 as stated: an attempt that ends failed, denied or errored has never
\* removed or reset a record.
C12_AsStated ==
    \A h \in Handlers :
        (call[h].pc = "done" /\ call[h].action \in LimitedActions
            /\ call[h].result # Success) => ~call[h].restarted

C12_Witness ==
    /\ call[1].pc = "done" /\ call[1].action = "login" /\ call[1].result = Success
    /\ call[1].email = "User@x.io"
    /\ "user@x.io" \notin DOMAIN loginAttempts
    /\ "user@x.io" \in DOMAIN signupAttempts
    /\ signupAttempts["user@x.io"].count = 2

StructuredTypes == {"success", "error", "url"}

\* C15: whatever the input (an email, or none) and however createClient()
\* and the provider's call end (a result, an error, a raised exception, a
\* missing Supabase URL or key), each of the six server actions hands its
\* caller a structured result: { success }, { error } with a message, or
\* { url }; an exception or missing configuration gives the generic
\* "unexpected error" result.
C15_StructuredResult ==
    \A h \in Handlers :
        call[h].pc = "done" =>
            /\ call[h].action \in Actions
            /\ call[h].result.type \in StructuredTypes
            /\ call[h].result.type = "error" => call[h].result.text # ""
            /\ call[h].result.type = "url" => call[h].action = "signInWithGoogle"
            /\ (call[h].provider = "raised" \/ configMissing(env))
                 => call[h].result \in {Unexpected} \cup TooMany

C15_Witness ==
    /\ call[1].pc = "done" /\ call[1].action = "resetPassword"
    /\ call[1].provider = "raised" /\ call[1].result = Unexpected

KnownEmail == [threw |-> FALSE, error |-> NoError, session |-> FALSE]
UnknownEmail == [threw |-> FALSE, error |-> "User not found", session |-> FALSE]

\* C16: a requestPasswordReset for an email the provider knows and one for
\* an email it does not know ("User not found", or no error at all) end
\* alike: from the same state both return { success: true } and both remove
\* the identifier's limiter record, so result and limiter state are equal.
C16_SameForUnknownEmail ==
    \A h \in Handlers :
        (call[h].action = "requestPasswordReset" /\ ~configMissing(env)) =>
            /\ call[h].pc = "provider" =>
                 /\ actionResult(call[h].action, env, KnownEmail)
                      = actionResult(call[h].action, env, UnknownEmail)
                 /\ clears(call[h].action, actionResult(call[h].action, env, KnownEmail))
                      = clears(call[h].action, actionResult(call[h].action, env, UnknownEmail))
            /\ (call[h].pc = "done" /\ call[h].provider = "returned"
                  /\ call[h].error \in {NoError, "User not found"}) =>
                 /\ call[h].result = Success
                 /\ toLowerCase(call[h].email) \notin DOMAIN passwordResetAttempts

C16_Witness ==
    /\ call[1].pc = "done" /\ call[1].action = "requestPasswordReset"
    /\ call[1].provider = "returned" /\ call[1].error = "User not found"
    /\ call[1].result = Success
    /\ "user@x.io" \notin DOMAIN passwordResetAttempts

\* C17: whatever error the provider reports for a sign-in (unknown account,
\* wrong password, anything else), login returns the one result
\* { error: 'Invalid login credentials' }.
C17_GenericLoginError ==
    \A h \in Handlers :
        (call[h].action = "login" /\ ~configMissing(env)) =>
            /\ call[h].pc = "provider" =>
                 \A e1, e2 \in ProviderErrors :
                    actionResult("login", env, [threw |-> FALSE, error |-> e1, session |-> FALSE])
                      = actionResult("login", env, [threw |-> FALSE, error |-> e2, session |-> FALSE])
            /\ (call[h].pc = "done" /\ call[h].provider = "returned"
                  /\ call[h].error # NoError) =>
                 call[h].result = Failure("Invalid login credentials")

C17_Witness ==
    /\ call[1].pc = "done" /\ call[1].action = "login"
    /\ call[1].provider = "returned" /\ call[1].error = "User not found"
    /\ call[1].result = Failure("Invalid login credentials")

\* The flag of the action's flow is off.
C18_Disabled(e, action) ==
    \/ ~isAuthEnabled(e)
    \/ action = "login" /\ ~isLoginEmailAuthEnabled(e)
    \/ action = "signup" /\ ~isRegisterEmailAuthEnabled(e)
    \/ action = "requestPasswordReset" /\ ~isForgotPasswordEnabled(e)
    \/ action = "resetPassword" /\ ~isResetPasswordEnabled(e)

\* C18 as stated: when the flag of a flow is off, its server action makes
\* no provider call, leaves the limiter alone and returns an explicit
\* "disabled" response.
C18_AsStated ==
    \A h \in Handlers :
        (call[h].pc # "idle" /\ C18_Disabled(env, call[h].action)) =>
            /\ call[h].pc = "done"
            /\ call[h].provider = "not called"
            /\ call[h].result.type = "error" /\ includes(call[h].result.text, "disabled")
            /\ loginAttempts = EmptyMap /\ signupAttempts = EmptyMap
            /\ passwordResetAttempts = EmptyMap

\* Handler 1's call passes the limiter's check in this step, for an
\* identifier with no record or with a record whose window has expired.
C20_CheckOfFreshIdentifier ==
    /\ call[1].pc = "idle" /\ call'[1].pc = "provider"
    /\ call'[1].action \in LimitedActions
    /\ LET m == attemptMapOf(call'[1].action)
           i == toLowerCase(call'[1].email)
       IN i \notin DOMAIN m \/ expired(m, i, windowMsOf(call'[1].action), now)

\* C20 as stated: the check of an identifier that has no record, or whose
\* window has expired, admits the attempt and writes nothing to the store.
C20_AsStated ==
    [][C20_CheckOfFreshIdentifier =>
         UNCHANGED <<loginAttempts, signupAttempts, passwordResetAttempts>>]_vars

(***************************************************************************)
(* Properties of the OAuth callback route.                                 *)
(***************************************************************************)
\* The callback has answered a request whose code was exchanged for the
\* session of a user without a profile while Google signup is off.
C13_RejectedNewUser ==
    /\ cb.pc = "done"
    /\ cb.user \in UserIds
    /\ cb.lookup = PGRST116
    /\ ~isGoogleSignupAllowed(env)

\* C13 as stated: a new user arriving while Google signup is off is answered
\* with a redirect to /login that carries an error parameter, with the
\* session signed out by then and with no profile row inserted.
C13_AsStated ==
    C13_RejectedNewUser =>
        /\ session = NoUser
        /\ cb.response.kind = "redirect"
        /\ startsWith(cb.response.location, cb.origin \o "/login?error=")
        /\ cb.insert = "not called"
        /\ user_profiles = cb.before

\* `if (code)`
C14_HasCode == cb.code.present /\ ~falsy(cb.code.value)

\* C14: the callback inserts a profile row only for a request whose code was
\* exchanged for a user's session, whose profile lookup reported that there
\* is no row (PGRST116) and with Google signup allowed; the row is that
\* user's. In every other outcome (no code, exchange error or no user,
\* existing profile, another lookup error, signup off) the table is as it
\* was when the request arrived.
C14_InsertOnlyForAllowedNewUser ==
    cb.pc # "idle" =>
        /\ cb.insert # "not called" =>
             /\ C14_HasCode
             /\ cb.user \in UserIds
             /\ cb.user \notin cb.before
             /\ cb.lookup = PGRST116
             /\ isGoogleSignupAllowed(env)
        /\ user_profiles =
             IF cb.insert = "ok" THEN cb.before \cup {cb.user} ELSE cb.before

C14_Witness ==
    /\ cb.pc = "done"
    /\ cb.insert = "ok"
    /\ cb.user = "u2"
    /\ cb.before = {"u1"}
    /\ user_profiles = {"u1", "u2"}

(***************************************************************************)
(* Properties of getClientIp.                                              *)
(***************************************************************************)
AllWhiteSpace(s) == \A k \in 1..Len(s) : charAt(s, k) \in WhiteSpace

\* field is what stands before the first comma of value.
C19_IsFirstField(field, value) ==
    /\ indexOfFrom(field, ",", 1) = 0
    /\ \/ field = value
       \/ startsWith(value, field \o ",")

\* r is field without the white space at its two ends.
C19_IsTrimmed(r, field) ==
    /\ \E a \in 0..Len(field) : \E b \in a..Len(field) :
          /\ r = SubSeq(field, a + 1, b)
          /\ AllWhiteSpace(SubSeq(field, 1, a))
          /\ AllWhiteSpace(SubSeq(field, b + 1, Len(field)))
    /\ r # "" => /\ charAt(r, 1) \notin WhiteSpace
                 /\ charAt(r, Len(r)) \notin WhiteSpace

C19_FirstForwarded(r, value) ==
    \E n \in 0..Len(value) :
        /\ C19_IsFirstField(SubSeq(value, 1, n), value)
        /\ C19_IsTrimmed(r, SubSeq(value, 1, n))

\* C19 as stated: the first forwarded-for value, trimmed, whenever that
\* header is present; otherwise the real-IP value when that header is
\* present; otherwise "unknown".
C19_AsStated ==
    ipCall.called =>
        LET h == ipCall.headers IN
        IF h.forwardedFor.present
        THEN C19_FirstForwarded(ipCall.result, h.forwardedFor.value)
        ELSE IF h.realIp.present THEN ipCall.result = h.realIp.value
        ELSE ipCall.result = "unknown"

\* C19, corrected: the first comma-separated value of the forwarded-for
\* header, trimmed, whenever that header is present and not empty;
\* otherwise the value of the real-IP header, as it is, when that header is
\* present and not empty; otherwise "unknown".
C19_ClientIp ==
    ipCall.called =>
        LET h == ipCall.headers IN
        IF h.forwardedFor.present /\ h.forwardedFor.value # ""
        THEN C19_FirstForwarded(ipCall.result, h.forwardedFor.value)
        ELSE IF h.realIp.present /\ h.realIp.value # ""
        THEN ipCall.result = h.realIp.value
        ELSE ipCall.result = "unknown"

C19_Witness ==
    /\ ipCall.called
    /\ ipCall.headers.forwardedFor = Param("1.2.3.4 ,5.6.7.8")
    /\ ipCall.headers.realIp = Param("9.9.9.9")
    /\ ipCall.result = "1.2.3.4"

(***************************************************************************)
(* Further properties of the in-memory limiter.                            *)
(***************************************************************************)
\* Handler 1 starts an attempt of action a for identifier i in this step.
C21_Starts(a, i) ==
    /\ call[1].pc = "idle" /\ call'[1].pc # "idle"
    /\ call'[1].action = a /\ toLowerCase(call'[1].email) = i

C21_Step(a, i) ==
    LET m == attemptMapOf(a)
        m2 == attemptMapOfNext(a)
        w == windowMsOf(a)
    IN /\ C21_Starts(a, i) =>
            /\ i \in DOMAIN m2
            /\ IF i \in DOMAIN m /\ now - m[i].timestamp <= w
               THEN \* inside the window: admitted or denied, the start stays
                    m2[i].timestamp = m[i].timestamp
               ELSE \* no record, or the window is over: admitted, fresh window
                    /\ m2[i] = [count |-> 1, timestamp |-> now]
                    /\ call'[1].pc = "provider"
       /\ (~C21_Starts(a, i) /\ i \in DOMAIN m /\ i \in DOMAIN m2)
            => m2[i].timestamp = m[i].timestamp

\* C21: the window of the in-memory limiter is fixed. The timestamp of a
\* record is the time of the first attempt of its window and no later
\* attempt within the window moves it, admitted or denied; the first
\* attempt made when now - timestamp > window is admitted and starts a new
\* window at now with count 1, however many attempts were denied meanwhile.
C21_FixedWindow ==
    [][\A a \in LimitedActions : \A i \in Identifiers : C21_Step(a, i)]_vars

\* An identifier whose signup count had passed the limit (4 > 3) is admitted
\* again at 120 s, its window having started at 0.
C21_Witness ==
    /\ call[1].pc = "provider" /\ call[1].action = "signup"
    /\ call[1].restarted /\ call[1].found = 4
    /\ now = 120000
    /\ signupAttempts["user@x.io"] = [count |-> 1, timestamp |-> 120000]

\* The handlers whose admitted attempt for the identifier is in flight: the
\* provider has not answered, so the attempt's outcome is not yet known.
C22_InFlight(i) ==
    {h \in Handlers : call[h].pc = "provider" /\ call[h].action = "signup"
                        /\ toLowerCase(call[h].email) = i}

\* The attempts of the identifier's record whose outcome is known: what a
\* record step that follows the attempt would have stored so far.
C22_Recorded(i) == signupAttempts[i].count - Cardinality(C22_InFlight(i))

\* Handler h makes its check for identifier i, whose record is inside its
\* window, while an attempt of another handler is in flight and fewer than
\* maxAttempts attempts are recorded.
C22_ChecksInRace(h, i) ==
    /\ call[h].pc = "idle" /\ call'[h].pc # "idle"
    /\ toLowerCase(call'[h].email) = i
    /\ i \in DOMAIN signupAttempts
    /\ ~expired(signupAttempts, i, SIGNUP_WINDOW_MS, now)
    /\ C22_InFlight(i) # {}
    /\ C22_Recorded(i) < SIGNUP_MAX_ATTEMPTS

C23_InWindow ==
    countStar(rows, countedRows(rows, UsageClientIp, UsageActionKey,
                                now - UsageWindowSeconds * 1000))

\* C23: check, action and record being three steps, concurrent callers for
\* one (identifier, actionKey) can get more than maxAttempts failing
\* attempts admitted and recorded inside one window, but only slightly
\* more: every caller still in flight when the count reaches the limit may
\* add one, so with H handlers the window never holds more than
\* maxAttempts + H - 1 attempts (plus those admitted by a check that failed
\* open).
C23_SlightlyMore ==
    C23_InWindow <= UsageMaxAttempts + NumHandlers - 1 + sa.opened

\* Six failed attempts were admitted and recorded in one window of a limit
\* of five, every check having been answered by the database.
C23_Witness ==
    /\ env.NODE_ENV = "production"
    /\ sa.opened = 0
    /\ C23_InWindow = UsageMaxAttempts + 1

(***************************************************************************)
(* Further properties of the session gate.                                 *)
(***************************************************************************)
\* Path P is route R, or R followed by a path separator and anything.
C24_Under(P, R) ==
    /\ Len(P) >= Len(R)
    /\ SubSeq(P, 1, Len(R)) = R
    /\ Len(P) = Len(R) \/ charAt(P, Len(R) + 1) = "/"

C24_Public(P) ==
    \/ P = "/"
    \/ \E R \in {"/login", "/register", "/forgot-password", "/reset-password"} :
          C24_Under(P, R)

\* C24: the root path is Public on exact match only; every other public
\* route R makes P Public exactly when P = R or P starts with R followed by
\* '/'; no other path is Public. Seen from outside: an unauthenticated
\* request outside the infrastructure prefixes gets Continue exactly for a
\* Public path, and a redirect for any other (/loginx, /dashboard, ...).
C24_Classification ==
    request # NoRequest =>
        /\ isPublicRoute(request.pathname) <=> C24_Public(request.pathname)
        /\ (mwPc = "done" /\ Unauthenticated /\ ~isBypassed(request.pathname)) =>
              (mwResult.kind = "next" <=> C24_Public(request.pathname))

C24_Witness ==
    /\ mwPc = "done" /\ verification = "nouser"
    /\ request.pathname = "/loginx"
    /\ mwResult.kind = "redirect"

\* The path of a URL of the given origin: what follows the origin, up to
\* the query string.
C27_PathOf(location, origin) ==
    LET rest == SubSeq(location, Len(origin) + 1, Len(location))
        q == indexOfFrom(rest, "?", 1)
    IN IF q = 0 THEN rest ELSE SubSeq(rest, 1, q - 1)

\* C27: no redirect loop. Whenever the middleware answers with a redirect,
\* the redirect stays on the request's origin and the request for its
\* target, made in the same authentication state, is answered with Continue
\* (/login is Public for a visitor without a user, /dashboard is no auth
\* page for one with a user): a navigation settles after one redirect.
C27_Settles ==
    (mwPc = "done" /\ mwResult.kind = "redirect") =>
        /\ startsWith(mwResult.location, request.origin \o "/")
        /\ LET follow == [request EXCEPT
                            !.pathname = C27_PathOf(mwResult.location, request.origin)]
               answer == decide(follow, verification = "user", NextResponseNext(follow))
           IN answer.kind = "next"

C27_Witness ==
    /\ mwPc = "done" /\ verification = "user"
    /\ request.pathname = "/login"
    /\ mwResult.kind = "redirect"
    /\ mwResult.location = request.origin \o "/dashboard"

\* The last limiter call was a check that the database answered with
\* allowed = false, and the table is as the check found it.
C25_Denied ==
    /\ lastOp.op = "check" /\ lastOp.outcome = "ok"
    /\ env.NODE_ENV # "development" /\ ~configMissing(env)
    /\ ~lastOp.result.allowed

\* C25 as stated: the resetAt of a denied check lies after the time of the
\* check, and a check made at resetAt, no attempt having been recorded
\* meanwhile, is allowed.
C25_AsStated ==
    C25_Denied =>
        /\ lastOp.result.resetAt > lastOp.at
        /\ check_rate_limit(rows, lastOp.identifier, lastOp.actionKey,
                            lastOp.maxAttempts, lastOp.windowSeconds,
                            lastOp.result.resetAt)[1].allowed

WindowChoices26 == WindowSecondsChoices \cup {RetentionMs \div 1000}

C26_Step ==
    lastOp'.op = "cleanup" /\ lastOp' # lastOp =>
        \* exactly the rows older than 24 hours go, the others stay as they are
        /\ \A r \in BagToSet(rows) :
              IF r.created_at < now - RetentionMs
              THEN ~BagIn(r, rows')
              ELSE BagIn(r, rows') /\ CopiesIn(r, rows') = CopiesIn(r, rows)
        /\ \A r \in BagToSet(rows') : BagIn(r, rows)
        \* a check with a window of at most 24 hours answers as before
        /\ \A k \in LimiterKeys, m \in MaxAttemptsChoices, w \in WindowChoices26 :
              check_rate_limit(rows', k[1], k[2], m, w, now)
                = check_rate_limit(rows, k[1], k[2], m, w, now)

\* C26: cleanup_old_rate_limit_entries deletes exactly the rows whose
\* created_at is more than 24 hours back and leaves every other row as it
\* is, so a check with a window of at most 24 hours (60 s, 120 s, 24 h)
\* returns the same row before and after a cleanup run.
C26_CleanupFrame == [][C26_Step]_vars

\* A cleanup has just deleted a row while keeping one that is exactly 24
\* hours old.
C26_Witness ==
    /\ lastOp.op = "cleanup" /\ lastOp.deleted >= 1
    /\ \E r \in BagToSet(rows) : r.created_at = now - RetentionMs

(***************************************************************************)
(* The order of limiter and provider in the server actions.                *)
(***************************************************************************)
\* The limiter denied handler h's call: the record it found was inside its
\* window and already held the limit's count.
C28_DeniedByLimiter(h) ==
    /\ call[h].pc # "idle" /\ call[h].action \in LimitedActions
    /\ ~call[h].restarted
    /\ call[h].found >= maxAttemptsOf(call[h].action)

\* C28: in login, signup and requestPasswordReset the limiter decides
\* before the provider is called. A call the limiter denies returns the
\* too-many-attempts error of its action at once: the provider is not
\* called, whatever the credentials, and the record stays, counted up by
\* one. Conversely the too-many-attempts error is returned for no other
\* reason.
C28_LimiterFirst ==
    \A h \in Handlers :
        /\ C28_DeniedByLimiter(h) =>
              /\ call[h].pc = "done"
              /\ call[h].result = tooManyOf(call[h].action)
              /\ call[h].provider = "not called"
              /\ toLowerCase(call[h].email) \in DOMAIN attemptMapOf(call[h].action)
              /\ attemptMapOf(call[h].action)[toLowerCase(call[h].email)].count
                   = call[h].found + 1
        /\ (call[h].pc # "idle" /\ call[h].result \in TooMany) => C28_DeniedByLimiter(h)

C28_Witness ==
    /\ call[1].pc = "done" /\ call[1].action = "requestPasswordReset"
    /\ call[1].found = 3 /\ ~call[1].restarted
    /\ call[1].provider = "not called"
    /\ call[1].result = tooManyOf("requestPasswordReset")
    /\ passwordResetAttempts["user@x.io"].count = 4

(***************************************************************************)
(* Where the OAuth callback redirects to, and in which state.              *)
(***************************************************************************)
\* The URL lies on the origin: it is the origin followed by a path, a query
\* or nothing.
C29_OnOrigin(url, origin) ==
    \/ url = origin
    \/ startsWith(url, origin \o "/")
    \/ startsWith(url, origin \o "?")

\* C29: every redirect the callback handler issues targets the origin of
\* the incoming request, whatever the next parameter of the request is: a
\* relative path, an absolute URL or a protocol-relative URL.
C29_AsStated ==
    (cb.pc = "done" /\ cb.response.kind = "redirect")
        => C29_OnOrigin(cb.response.location, cb.origin)

\* The handler ended by redirecting to the next URL.
C30_RedirectedToNext ==
    /\ cb.pc = "done" /\ cb.response.kind = "redirect"
    /\ cb.lookup # "not called" /\ cb.signOut = "not called"

\* C30: whenever the callback handler ends by redirecting to the next URL
\* with an active session, user_profiles holds a row for the session's
\* user, found by the lookup or inserted by this request.
C30_AsStated ==
    (C30_RedirectedToNext /\ session # NoUser) => session \in user_profiles

====
